---- MODULE Spec2Model ----
(***************************************************************************)
(* Decode engine of yolo-helpers: decodeBox / decodeBoxSync,               *)
(* decodePose / decodePoseSync, decodeSegment / decodeSegmentSync and      *)
(* decodeClassify, as one call that runs from its arguments to a returned  *)
(* result or a thrown error.                                               *)
(*                                                                         *)
(* Numbers.  Scores are small naturals.  The corner form x -/+ width / 2   *)
(* is kept exact by storing every corner multiplied by 2 (IoU does not     *)
(* change under a common scale).  An IoU threshold is a fraction           *)
(* <<num, den>>.  An optional argument is <<>> when the caller leaves it   *)
(* out and <<v>> when the caller provides v.  Arrays are 1-based sequences;*)
(* At(batch, ch, slot) takes the 0-based indices of the source.            *)
(***************************************************************************)
EXTENDS Integers, Sequences, FiniteSets, TLC

\* ---------------------------------------------------------------- bounds
MaxClasses == 2
MaxSlots == 3
MaxBatches == 2
MaxScore == 2

VARIABLES
  fn,           \* the decoder that was called
  args,         \* its arguments
  pc,           \* "idle", "called", "loop", "scored", "selected", "returned",
                \* "thrown", "written"
  batch_index,  \* 0-based index of the batch the loop is at
  num_boxes,    \* batches[0][0].length
  boxes,        \* corner boxes of the current batch (scaled by 2)
  scores,       \* best class score per slot of the current batch
  cls_indices,  \* best class index per slot of the current batch
  box_indices,  \* slot indices selected for the current batch
  nms_calls,    \* the arguments of every NMS invocation so far
  result,       \* the result array built so far
  error,        \* "" or the kind of the error thrown
  refs,         \* <<batch index, field>> of the result entries that hold an
                \* array of the input itself instead of a new array
  previous,     \* <<>> or the outcome of the suspending variant that ran
                \* before on the same arguments
  acc_sums,     \* combineMask: acc of every pixel before acc = sigmoid(acc)
  final_mask,   \* combineMask: the rows of final_mask filled so far
  baseline,     \* <<>> or the outcome of the same decoder on the arguments
                \* that the current ones were derived from
  calls,        \* the decoder calls in flight on one event loop
  live_tensors, \* the NMS index tensors that exist in the tf runtime
  modelPath,    \* loadYoloModel: its parameter, reassigned as it runs
  metadataPath  \* loadYoloModel: <<>> or the path of metadata.yaml

mask_vars == <<acc_sums, final_mask>>

aux_vars == <<baseline, calls, live_tensors, modelPath, metadataPath>>

vars == <<fn, args, pc, batch_index, num_boxes, boxes, scores, cls_indices,
          box_indices, nms_calls, result, error, refs, previous, mask_vars, aux_vars>>

\* ------------------------------------------------------- values and arrays
None == <<>>
Some(v) == <<v>>
IsProvided(opt) == opt # <<>>

\* JavaScript truthiness of an optional number: undefined and 0 are falsy.
Truthy(opt) == opt # <<>> /\ opt[1] # 0

At(batch, ch, slot) == batch[ch + 1][slot + 1]

Min2(a, b) == IF a < b THEN a ELSE b
Max2(a, b) == IF a > b THEN a ELSE b

RECURSIVE SeqMax(_)
SeqMax(s) ==
  IF Len(s) = 1 THEN s[1] ELSE Max2(s[1], SeqMax(Tail(s)))

\* lowest 0-based index at which s attains its maximum
FirstArgMax(s) ==
  (CHOOSE i \in 1..Len(s) :
     /\ s[i] = SeqMax(s)
     /\ \A j \in 1..(i - 1) : s[j] # SeqMax(s)) - 1

IsBox(f) == f \in {"decodeBox", "decodeBoxSync"}
IsLegacyPose(f) == f \in {"yolo-pose/common.decodePose",
                          "yolo-pose/common.decodePoseSync"}
IsPose(f) == f \in {"decodePose", "decodePoseSync"}
IsSegment(f) == f \in {"decodeSegment", "decodeSegmentSync"}
IsClassify(f) == f = "decodeClassify"

\* the blocking variants, and the blocking variant of a suspending decoder
IsSync(f) == f \in {"decodeBoxSync", "decodePoseSync", "decodeSegmentSync",
                    "yolo-pose/common.decodePoseSync"}

IsSuspending(f) == f \in {"decodeBox", "decodePose", "decodeSegment",
                          "yolo-pose/common.decodePose"}

Counterpart(f) ==
  IF f = "decodeBox" THEN "decodeBoxSync"
  ELSE IF f = "decodePose" THEN "decodePoseSync"
  ELSE IF f = "decodeSegment" THEN "decodeSegmentSync"
  ELSE "yolo-pose/common.decodePoseSync"

\* ------------------------------------------------------ shape of the input
DefaultNumChannels == 32

decodeBox_length(a) == 4 + a.num_classes

legacyPose_length(a) == 4 + a.num_classes + a.num_keypoints * 3

decodePose_length(a) ==
  4 + a.num_classes + a.num_keypoints * (IF a.visibility THEN 3 ELSE 2)

\* args.num_channels ?? 32
num_channels(a) ==
  IF IsProvided(a.num_channels) THEN a.num_channels[1] ELSE DefaultNumChannels

decodeSegment_boxes_length(a) == 4 + a.num_classes + num_channels(a)

decodeClassify_length(a) == a.num_classes

length(f, a) ==
  IF IsBox(f) THEN decodeBox_length(a)
  ELSE IF IsLegacyPose(f) THEN legacyPose_length(a)
  ELSE IF IsPose(f) THEN decodePose_length(a)
  ELSE IF IsSegment(f) THEN decodeSegment_boxes_length(a)
  ELSE decodeClassify_length(a)

batches(f, a) == IF IsSegment(f) THEN a.output_boxes ELSE a.output

\* getMaskShape: <<width, height>>, or <<>> when it throws
getMaskShape(a) ==
  IF IsProvided(a.mask_shape) THEN a.mask_shape
  ELSE IF IsProvided(a.input_shape)
       THEN <<a.input_shape[1] \div 4, a.input_shape[2] \div 4>>
       ELSE <<>>

\* The checks every decoder makes on batches[0] before its loop:
\* "empty" (return []), "Error" (throw) or "ok".
checkFirstBatchNoShortCircuit(f, a) ==
  IF Len(batches(f, a)[1]) # length(f, a) THEN "Error" ELSE "ok"

checkFirstBatch(f, a) ==
  IF Len(batches(f, a)[1]) = 0 THEN "empty"
  ELSE IF Len(batches(f, a)[1]) # length(f, a) THEN "Error"
  ELSE "ok"

\* decodeSegment's checks on output_masks and on the two batch counts:
\* "Error", "TypeError" (a length read on undefined) or "ok".
checkMasksNoBatchCount(a) ==
  LET shape == getMaskShape(a)
      masks == a.output_masks
  IN IF Len(masks) = 0 THEN "TypeError"
     ELSE IF Len(masks[1]) # shape[2] THEN "Error"
     ELSE IF Len(masks[1]) = 0 THEN "TypeError"
     ELSE IF Len(masks[1][1]) # shape[1] THEN "Error"
     ELSE IF Len(masks[1][1]) = 0 THEN "TypeError"
     ELSE IF Len(masks[1][1][1]) # num_channels(a) THEN "Error"
     ELSE "ok"

checkMasks(a) ==
  LET shape == getMaskShape(a)
      masks == a.output_masks
  IN IF Len(masks) = 0 THEN "TypeError"
     ELSE IF Len(masks[1]) # shape[2] THEN "Error"
     ELSE IF Len(masks[1]) = 0 THEN "TypeError"
     ELSE IF Len(masks[1][1]) # shape[1] THEN "Error"
     ELSE IF Len(masks[1][1]) = 0 THEN "TypeError"
     ELSE IF Len(masks[1][1][1]) # num_channels(a) THEN "Error"
     ELSE IF Len(a.output_boxes) # Len(masks) THEN "Error"
     ELSE "ok"

\* ------------------------------------------- box geometry and class scoring
\* [x1, y1, x2, y2] = [x - w/2, y - h/2, x + w/2, y + h/2], times 2
CornersQuarter(x, y, width, height) ==
  <<2 * x - width \div 2, 2 * y - height \div 2,
    2 * x + width \div 2, 2 * y + height \div 2>>

Corners(x, y, width, height) ==
  <<2 * x - width, 2 * y - height, 2 * x + width, 2 * y + height>>

\* The slot whose class channel 4 + i is read while scoring box_index.
decodeBox_clsScoreSlot_i(i, box_index) == i

decodeBox_clsScoreSlot(i, box_index) == box_index

\* yolo-pose/common.ts reads batch[4 + i][i]
legacyPose_clsScoreSlot(i, box_index) == i

clsScoreSlot(f, i, box_index) ==
  IF IsLegacyPose(f) THEN legacyPose_clsScoreSlot(i, box_index)
  ELSE decodeBox_clsScoreSlot(i, box_index)

\* cls_score > box_score; reading past the end of a channel gives undefined,
\* and undefined > box_score is false.
RECURSIVE scanClasses(_, _, _, _, _, _, _)
scanClasses(f, batch, nc, box_index, i, box_score, cls_index) ==
  IF i >= nc THEN <<box_score, cls_index>>
  ELSE LET slot == clsScoreSlot(f, i, box_index)
       IN IF slot < Len(batch[4 + i + 1]) /\ At(batch, 4 + i, slot) > box_score
          THEN scanClasses(f, batch, nc, box_index, i + 1, At(batch, 4 + i, slot), i)
          ELSE scanClasses(f, batch, nc, box_index, i + 1, box_score, cls_index)

\* <<box_score, cls_index>> of one slot
bestClassOfAllChannels(f, batch, nc, box_index) ==
  scanClasses(f, batch, Len(batch) - 4, box_index, 1, At(batch, 4, box_index), 0)

bestClass(f, batch, nc, box_index) ==
  scanClasses(f, batch, nc, box_index, 1, At(batch, 4, box_index), 0)

\* The scoring loop reads batch[0..3+nc][box_index]: a missing channel is a
\* TypeError as soon as there is one slot to score.
scoringThrows(a, batch, n) == n >= 1 /\ Len(batch) < 4 + a.num_classes

\* --------------------------------------------- greedy non-max suppression
\* tf.image.nonMaxSuppression / nonMaxSuppressionAsync, the runtime's
\* primitive: selection by descending score (lowest slot first among equal
\* scores), suppression of what overlaps a selected box by more than
\* iouThreshold, at most maxOutputSize selections.
DefaultIouThreshold == <<1, 2>>

Area(b) ==
  (Max2(b[1], b[3]) - Min2(b[1], b[3])) * (Max2(b[2], b[4]) - Min2(b[2], b[4]))

\* <<intersection, union>>; a box of zero area has IoU 0 with every box
IoU(a, b) ==
  LET iw == Min2(Max2(a[1], a[3]), Max2(b[1], b[3]))
              - Max2(Min2(a[1], a[3]), Min2(b[1], b[3]))
      ih == Min2(Max2(a[2], a[4]), Max2(b[2], b[4]))
              - Max2(Min2(a[2], a[4]), Min2(b[2], b[4]))
      inter == Max2(iw, 0) * Max2(ih, 0)
  IN IF Area(a) <= 0 \/ Area(b) <= 0 THEN <<0, 1>>
     ELSE <<inter, Area(a) + Area(b) - inter>>

\* IoU(a, b) > thr, for thr = <<num, den>>
IoUExceeds(a, b, thr) == IoU(a, b)[1] * thr[2] > thr[1] * IoU(a, b)[2]

\* score > scoreThreshold, the default threshold being -Infinity
ExceedsScore(score, scoreThreshold) ==
  scoreThreshold = <<>> \/ score > scoreThreshold[1]

\* the remaining candidate of highest score, lowest slot among equals (1-based)
BestCandidate(cands, scs) ==
  CHOOSE c \in cands :
    \A d \in cands : scs[d] < scs[c] \/ (scs[d] = scs[c] /\ c <= d)

RECURSIVE nmsLoop(_, _, _, _, _, _)
nmsLoop(bxs, scs, cands, selected, max, thr) ==
  IF cands = {} \/ Len(selected) >= max THEN selected
  ELSE LET c == BestCandidate(cands, scs)
       IN nmsLoop(bxs, scs,
                  {d \in cands \ {c} : ~IoUExceeds(bxs[c], bxs[d], thr)},
                  Append(selected, c - 1), max, thr)

\* the selected slot indices (0-based), in selection order
nonMaxSuppression(bxs, scs, max, iouThreshold, scoreThreshold) ==
  nmsLoop(bxs, scs,
          {c \in 1..Len(scs) : ExceedsScore(scs[c], scoreThreshold)},
          <<>>, max,
          IF iouThreshold = <<>> THEN DefaultIouThreshold ELSE iouThreshold[1])

\* Array.from({ length: num_boxes }, (_, i) => i)
allIndicesReversed(n) == [i \in 1..n |-> n - i]

allIndices(n) == [i \in 1..n |-> i - 1]

\* if (maxOutputSize) { nonMaxSuppression(...) } else { all slots }
selectBoxIndicesAlwaysNms(a, bxs, scs, n) ==
  nonMaxSuppression(bxs, scs, IF Truthy(a.maxOutputSize) THEN a.maxOutputSize[1] ELSE n,
                    a.iouThreshold, a.scoreThreshold)

selectBoxIndicesNoScoreThreshold(a, bxs, scs, n) ==
  IF Truthy(a.maxOutputSize)
  THEN nonMaxSuppression(bxs, scs, a.maxOutputSize[1], a.iouThreshold, <<>>)
  ELSE allIndices(n)

selectBoxIndicesOneMore(a, bxs, scs, n) ==
  IF Truthy(a.maxOutputSize)
  THEN nonMaxSuppression(bxs, scs, a.maxOutputSize[1] + 1,
                         a.iouThreshold, a.scoreThreshold)
  ELSE allIndices(n)

selectBoxIndices(a, bxs, scs, n) ==
  IF Truthy(a.maxOutputSize)
  THEN nonMaxSuppression(bxs, scs, a.maxOutputSize[1],
                         a.iouThreshold, a.scoreThreshold)
  ELSE allIndices(n)

\* the blocking variants: tf.tidy(() => tf.image.nonMaxSuppression(...)
\* .arraySync()), the synchronous form of the primitive, which returns the
\* indices that the asynchronous form returns
selectBoxIndicesSyncDefaultIou(a, bxs, scs, n) ==
  IF Truthy(a.maxOutputSize)
  THEN nonMaxSuppression(bxs, scs, a.maxOutputSize[1], <<>>, a.scoreThreshold)
  ELSE allIndices(n)

selectBoxIndicesSync(a, bxs, scs, n) ==
  IF Truthy(a.maxOutputSize)
  THEN nonMaxSuppression(bxs, scs, a.maxOutputSize[1],
                         a.iouThreshold, a.scoreThreshold)
  ELSE allIndices(n)

\* ------------------------------------------------------- result assembly
\* let batch_masks = batches_masks[batch]
batch_masks_ofFirst(a, b) == a.output_masks[1]

batch_masks_of(a, b) == a.output_masks[b + 1]

\* all_confidences[i] = batch[4 + i][box_index]
all_confidences_of(batch, nc, box_index) ==
  [i \in 1..nc |-> At(batch, 4 + i - 1, box_index)]

BoundingBox(batch, nc, cls, box_index) ==
  [x |-> At(batch, 0, box_index),
   y |-> At(batch, 1, box_index),
   width |-> At(batch, 2, box_index),
   height |-> At(batch, 3, box_index),
   class_index |-> cls[box_index + 1],
   confidence |-> At(batch, 4 + cls[box_index + 1], box_index),
   all_confidences |-> all_confidences_of(batch, nc, box_index)]

\* for (offset = 4 + num_classes; offset + 2 < length; offset += stride)
RECURSIVE keypointOffsets(_, _, _)
keypointOffsets(offset, len, stride) ==
  IF offset + 2 < len
  THEN <<offset>> \o keypointOffsets(offset + stride, len, stride)
  ELSE <<>>

keypointStride(f, a) == IF IsLegacyPose(f) \/ a.visibility THEN 3 ELSE 2

hasVisibility(f, a) == IsLegacyPose(f) \/ a.visibility

keypoints_ofDefaultZero(f, a, batch, box_index) ==
  LET offs == keypointOffsets(4 + a.num_classes, length(f, a), keypointStride(f, a))
  IN [k \in 1..Len(offs) |->
        [x |-> At(batch, offs[k], box_index),
         y |-> At(batch, offs[k] + 1, box_index),
         visibility |-> IF hasVisibility(f, a)
                        THEN At(batch, offs[k] + 2, box_index) ELSE 0]]

keypoints_of(f, a, batch, box_index) ==
  LET offs == keypointOffsets(4 + a.num_classes, length(f, a), keypointStride(f, a))
  IN [k \in 1..Len(offs) |->
        [x |-> At(batch, offs[k], box_index),
         y |-> At(batch, offs[k] + 1, box_index),
         visibility |-> IF hasVisibility(f, a)
                        THEN At(batch, offs[k] + 2, box_index) ELSE 1]]

mask_coefficients_of(a, batch, box_index) ==
  [i \in 1..num_channels(a) |-> At(batch, 4 + a.num_classes + i - 1, box_index)]

\* the highest channel index (0-based) read while materialising one box
lastChannelRead(f, a) ==
  IF IsBox(f) THEN 3 + a.num_classes
  ELSE IF IsSegment(f) THEN 3 + a.num_classes + num_channels(a)
  ELSE LET offs == keypointOffsets(4 + a.num_classes, length(f, a), keypointStride(f, a))
       IN IF Len(offs) = 0 THEN 3 + a.num_classes
          ELSE offs[Len(offs)] + (IF hasVisibility(f, a) THEN 2 ELSE 1)

materializeThrows(f, a, batch, indices) ==
  Len(indices) >= 1 /\ Len(batch) < lastChannelRead(f, a) + 1

materializeBox(f, a, batch, cls, box_index) ==
  LET bb == BoundingBox(batch, a.num_classes, cls, box_index)
  IN IF IsBox(f) THEN bb
     ELSE IF IsSegment(f)
          THEN [x |-> bb.x, y |-> bb.y, width |-> bb.width, height |-> bb.height,
                class_index |-> bb.class_index, confidence |-> bb.confidence,
                all_confidences |-> bb.all_confidences,
                mask_coefficients |-> mask_coefficients_of(a, batch, box_index)]
          ELSE [x |-> bb.x, y |-> bb.y, width |-> bb.width, height |-> bb.height,
                class_index |-> bb.class_index, confidence |-> bb.confidence,
                all_confidences |-> bb.all_confidences,
                keypoints |-> keypoints_of(f, a, batch, box_index)]

bounding_boxes_of(f, a, batch, cls, indices) ==
  [k \in 1..Len(indices) |-> materializeBox(f, a, batch, cls, indices[k])]

\* ------------------------------------------------------------- classify
\* the arg-max loop of decodeClassify over one batch; an index past the end
\* of the vector reads undefined, and undefined > class_confidence is false
RECURSIVE classifyScanTiesLast(_, _, _, _, _)
classifyScanTiesLast(v, nc, i, class_confidence, class_index) ==
  IF i >= nc THEN <<class_confidence, class_index>>
  ELSE IF i < Len(v) /\ v[i + 1] >= class_confidence
       THEN classifyScanTiesLast(v, nc, i + 1, v[i + 1], i)
       ELSE classifyScanTiesLast(v, nc, i + 1, class_confidence, class_index)

RECURSIVE classifyScan(_, _, _, _, _)
classifyScan(v, nc, i, class_confidence, class_index) ==
  IF i >= nc THEN <<class_confidence, class_index>>
  ELSE IF i < Len(v) /\ v[i + 1] > class_confidence
       THEN classifyScan(v, nc, i + 1, v[i + 1], i)
       ELSE classifyScan(v, nc, i + 1, class_confidence, class_index)

\* all_confidences[0] of an empty vector is undefined: confidence is <<>>
ImageResult(v, nc) ==
  IF Len(v) = 0
  THEN [all_confidences |-> v, class_index |-> 0, confidence |-> <<>>]
  ELSE [all_confidences |-> v,
        class_index |-> classifyScan(v, nc, 1, v[1], 0)[2],
        confidence |-> <<classifyScan(v, nc, 1, v[1], 0)[1]>>]

\* ---------------------------------------------------------- combineMask
\* sigmoid(x) = 1 / (1 + Math.exp(-x)), in ten-thousandths rounded to the
\* nearest: sigmoid(1) = 0.7311, sigmoid(2) = 0.8808, ...; sigmoid(0) is
\* exactly one half.
SigmoidScale == 10000
SigmoidTable == <<7311, 8808, 9526, 9820, 9933, 9975, 9991, 9997, 9999>>

sigmoidAbs(m) ==
  IF m = 0 THEN SigmoidScale \div 2
  ELSE IF m <= Len(SigmoidTable) THEN SigmoidTable[m] ELSE SigmoidScale

sigmoidShifted(x) ==
  IF x >= 0 THEN sigmoidAbs(x + 1) ELSE SigmoidScale - sigmoidAbs(-x)

sigmoid(x) ==
  IF x >= 0 THEN sigmoidAbs(x) ELSE SigmoidScale - sigmoidAbs(-x)

\* for (let i = 0; i < num_channels; i++)
\*   acc += mask_coefficients[i] * masks[h][w][i]
RECURSIVE accumulate(_, _, _, _, _)
accumulate(mask_coefficients, pixel, nch, i, acc) ==
  IF i >= nch THEN acc
  ELSE accumulate(mask_coefficients, pixel, nch, i + 1,
                  acc + mask_coefficients[i + 1] * pixel[i + 1])

\* acc of one pixel before the sigmoid, from let acc = 0
pixelSumFromOne(mask_coefficients, pixel, nch) ==
  accumulate(mask_coefficients, pixel, nch, 0, 1)

pixelSum(mask_coefficients, pixel, nch) ==
  accumulate(mask_coefficients, pixel, nch, 0, 0)

\* the reads of masks[0].length and masks[0][0].length and the comparison
\* with mask_coefficients.length: "TypeError", "Error" or "ok"
combineMask_checkLonger(a) ==
  IF Len(a.masks) = 0 THEN "TypeError"
  ELSE IF Len(a.masks[1]) = 0 THEN "TypeError"
  ELSE IF Len(a.masks[1][1]) > Len(a.bounding_box.mask_coefficients) THEN "Error"
  ELSE "ok"

combineMask_check(a) ==
  IF Len(a.masks) = 0 THEN "TypeError"
  ELSE IF Len(a.masks[1]) = 0 THEN "TypeError"
  ELSE IF Len(a.masks[1][1]) # Len(a.bounding_box.mask_coefficients) THEN "Error"
  ELSE "ok"

\* ------------------------------------------------------------ the inputs
\* The inputs are the union of four families, each varying what one group
\* of operations depends on.
MaxOutput == 2
MaxEntries == 4

ScoreValues == 0..MaxScore

\* x, y, width, height of the slots whose geometry does not vary
Geometry == <<3, 1, 6, 2>>

\* centres of the 6 x 2 boxes given to NMS: IoU 1 (same centre), 1/2 (3 and
\* 5), 1/5 (5 and 9) and 0 (3 and 9)
XSet == {3, 5, 9}

\* scores of the slots given to NMS: at and above the score threshold
NmsScores == {1, 2}

IouThresholds == {None, Some(<<1, 5>>)}
ScoreThresholds == {None, Some(1)}
MaxOutputSizes == {None} \cup {Some(m) : m \in 0..MaxOutput}

\* a batch [channel][slot] from its columns [slot][channel]
BatchOfColumns(cols) ==
  [ch \in 1..Len(cols[1]) |-> [s \in 1..Len(cols) |-> cols[s][ch]]]

Ones(n) == [i \in 1..n |-> 1]

\* one batch of up to MaxSlots slots of one class: varying centre and score
NmsColumns == {<<x, Geometry[2], Geometry[3], Geometry[4], s>> :
                 x \in XSet, s \in NmsScores}

NmsTensors ==
  UNION {{<<BatchOfColumns(cols)>> : cols \in [1..n -> NmsColumns]} :
           n \in 1..MaxSlots}

\* b batches of n slots (b * n <= MaxBatches, nc * b * n <= MaxEntries):
\* fixed geometry, varying class scores, `extra` further channels of value 1
ScoreColumns(nc, extra) ==
  {Geometry \o cs \o Ones(extra) : cs \in [1..nc -> ScoreValues]}

ScoreTensors(nc, extra) ==
  UNION {UNION {[1..b -> {BatchOfColumns(cols) :
                            cols \in [1..n -> ScoreColumns(nc, extra)]}] :
                  n \in {m \in 1..(MaxBatches \div b) : nc * b * m <= MaxEntries}} :
           b \in 1..MaxBatches}

\* channel counts around the expected one
RaggedLengths(len) == {0, len - 1, len, len + 1}

\* batches of one slot whose channel counts vary from batch to batch
RaggedBatch(len) == [ch \in 1..len |-> <<IF ch <= 4 THEN Geometry[ch] ELSE 1>>]

RaggedTensors(len) ==
  UNION {[1..b -> {RaggedBatch(l) : l \in RaggedLengths(len)}] : b \in 1..MaxBatches}

\* tensor-shaped inputs of decodeClassify: b vectors of nc confidences
ClassifyTensors(nc) ==
  UNION {[1..b -> [1..nc -> ScoreValues]] :
           b \in {m \in 1..MaxBatches : nc * m <= MaxEntries}}

\* ragged inputs of decodeClassify: vectors <<1, 2, .., l>> of varying length
RaggedVectors(nc) ==
  UNION {[1..b -> {[i \in 1..l |-> i] : l \in RaggedLengths(nc)}] : b \in 1..MaxBatches}

\* prototype mask tensors [batch][height][width][channel]
GoodMask == <<<<<<1>>>>>>

MaskTensors ==
  {<<>>} \cup UNION {[1..b -> {<<>>, <<<<>>>>, GoodMask, <<<<<<1, 1>>>>>>}] :
                      b \in 1..MaxBatches}

\* pose batches of one class whose every keypoint channel holds its own
\* values: channel ch (1-based) holds 10 * ch + slot + v at each slot
MaxKeypoints == 2

KeypointBatch(len, n, v) ==
  [ch \in 1..len |->
     [s \in 1..n |-> IF ch <= 4 THEN Geometry[ch]
                     ELSE IF ch = 5 THEN 1
                     ELSE 10 * ch + s + v]]

KeypointTensors(len) ==
  {<<KeypointBatch(len, n, v)>> : n \in 1..2, v \in ScoreValues}

\* prototype masks [height][width][channel] of a batch, of values -2 .. 2,
\* and the two arrays without a pixel
MaxMaskSide == 2
MaxMaskChannels == 2

PrototypeMask(mask_height, mask_width, nch, v) ==
  [h \in 1..mask_height |->
     [w \in 1..mask_width |->
        [i \in 1..nch |-> ((h + 2 * w + 3 * i + v) % 5) - 2]]]

MaskPrototypes ==
  {<<>>, <<<<>>>>}
  \cup {PrototypeMask(mh, mw, nch, v) :
          mh \in 1..MaxMaskSide, mw \in 1..MaxMaskSide,
          nch \in 1..MaxMaskChannels, v \in ScoreValues}

CoefficientValues == {-1, 0, 1}

Coefficients ==
  UNION {[1..l -> CoefficientValues] : l \in 0..(MaxMaskChannels + 1)}

CombineMaskInputs ==
  [bounding_box : [mask_coefficients : Coefficients], masks : MaskPrototypes]

BoxFns == {"decodeBox", "decodeBoxSync"}
LegacyPoseFns == {"yolo-pose/common.decodePose", "yolo-pose/common.decodePoseSync"}
PoseFns == {"decodePose", "decodePoseSync"}
SegmentFns == {"decodeSegment", "decodeSegmentSync"}

BoxArgs(nc, tensors, maxes, ious, thresholds) ==
  [num_classes : {nc}, output : tensors, maxOutputSize : maxes,
   iouThreshold : ious, scoreThreshold : thresholds]

PoseArgs(nc, nk, vis, tensors, maxes) ==
  [num_classes : {nc}, num_keypoints : {nk}, visibility : {vis},
   output : tensors, maxOutputSize : maxes,
   iouThreshold : {None}, scoreThreshold : {None}]

SegmentArgs(nc, chans, shapes, tensors, masks, maxes) ==
  [num_classes : {nc}, num_channels : chans,
   mask_shape : shapes, input_shape : {<<4, 4>>},
   output_boxes : tensors, output_masks : masks, maxOutputSize : maxes,
   iouThreshold : {None}, scoreThreshold : {None}]

\* the masks that go with the box tensor t in a well-formed call
MasksFor(t) == [b \in 1..Len(t) |-> GoodMask]

\* NMS: one class, geometry and scores vary, every combination of the
\* three NMS arguments
NmsInputs ==
  BoxFns \X BoxArgs(1, NmsTensors, MaxOutputSizes, IouThresholds, ScoreThresholds)

\* scoring and assembly: class scores vary, all decoders
ScoreInputs ==
  UNION {
    (BoxFns \X BoxArgs(nc, ScoreTensors(nc, 0), {None, Some(1)}, {None}, {None}))
    \cup UNION {
      (LegacyPoseFns \X PoseArgs(nc, nk, TRUE, ScoreTensors(nc, 3 * nk), {None, Some(1)}))
      \cup (PoseFns \X PoseArgs(nc, nk, TRUE, ScoreTensors(nc, 3 * nk), {None, Some(1)}))
      \cup (PoseFns \X PoseArgs(nc, nk, FALSE, ScoreTensors(nc, 2 * nk), {None, Some(1)}))
      : nk \in 0..1}
    \cup UNION {SegmentFns \X SegmentArgs(nc, {Some(1)}, {<<>>, <<1, 1>>}, {t},
                                          {MasksFor(t)}, {None, Some(1)})
                : t \in ScoreTensors(nc, 1)}
    : nc \in 1..MaxClasses}

\* shapes: the channel count of every batch varies; for decodeSegment also
\* the prototype masks, next to an empty or a well-formed first batch
ShapeInputs ==
  UNION {
    (BoxFns \X BoxArgs(nc, RaggedTensors(4 + nc), {None, Some(1)}, {None}, {None}))
    \cup (LegacyPoseFns \X PoseArgs(nc, 1, TRUE, RaggedTensors(7 + nc), {None, Some(1)}))
    \cup UNION {PoseFns \X PoseArgs(nc, 1, vis, RaggedTensors(4 + nc + (IF vis THEN 3 ELSE 2)),
                                    {None, Some(1)})
                : vis \in BOOLEAN}
    \cup UNION {SegmentFns \X SegmentArgs(nc, {None, Some(1)}, {<<1, 1>>}, {t},
                                          {MasksFor(t)}, {None, Some(1)})
                : t \in RaggedTensors(5 + nc)}
    \cup (SegmentFns \X SegmentArgs(nc, {Some(1)}, {<<1, 1>>},
                                    {<<RaggedBatch(5 + nc)>>, <<RaggedBatch(0), RaggedBatch(5 + nc)>>},
                                    MaskTensors, {None}))
    : nc \in 1..MaxClasses}

\* keypoints: the number of keypoints, the visibility layout and the values
\* of the keypoint channels vary
KeypointInputs ==
  UNION {PoseFns \X PoseArgs(1, nk, vis,
                             KeypointTensors(5 + nk * (IF vis THEN 3 ELSE 2)),
                             {None, Some(1)})
         : nk \in 1..MaxKeypoints, vis \in BOOLEAN}

\* prototype masks: two well-formed batches whose masks differ
MaskInputs ==
  SegmentFns \X SegmentArgs(1, {Some(1)}, {<<1, 1>>},
                            {<<RaggedBatch(6), RaggedBatch(6)>>},
                            {<<<<<<<<v1>>>>>>, <<<<<<v2>>>>>>>> : v1, v2 \in ScoreValues},
                            {None, Some(1)})

ClassifyInputs ==
  UNION {{"decodeClassify"} \X
           [num_classes : {nc}, output : ClassifyTensors(nc) \cup RaggedVectors(nc)]
         : nc \in 1..MaxClasses}

\* a tensor whose first batch has fewer slots than its second
FewerSlotsFirst ==
  <<BatchOfColumns(<<<<3, 1, 6, 2, 1>>>>),
    BatchOfColumns(<<<<3, 1, 6, 2, 1>>, <<9, 1, 6, 2, 2>>>>)>>

SlotCountInputs ==
  BoxFns \X BoxArgs(1, {FewerSlotsFirst}, {None, Some(1)}, {None}, {None})

\* two slots that do not overlap, two classes: class scores <<0, 3>> and <<2, 1>>
TwoClassSlots ==
  BatchOfColumns(<<<<3, 1, 6, 2, 0, 3>>, <<9, 1, 6, 2, 2, 1>>>>)

OrderInputs ==
  (LegacyPoseFns \cup PoseFns) \X PoseArgs(2, 0, TRUE, {<<TwoClassSlots>>}, {Some(2)})

\* prototype masks of one channel for the first batch, two for the second
ChannelCountInputs ==
  SegmentFns \X SegmentArgs(1, {Some(1)}, {<<1, 1>>},
                            {<<RaggedBatch(6), RaggedBatch(6)>>},
                            {<<GoodMask, <<<<<<1, 1>>>>>>>>},
                            {None, Some(1)})

Inputs ==
  NmsInputs \cup ScoreInputs \cup ShapeInputs \cup ClassifyInputs
  \cup KeypointInputs \cup MaskInputs \cup SlotCountInputs \cup OrderInputs
  \cup ChannelCountInputs

\* ------------------------------------------------------------ the state
NoArgs == [num_classes |-> 0]

\* nothing called, nothing loaded, no tensor alive
AuxInit ==
  /\ baseline = <<>>
  /\ calls = <<>>
  /\ live_tensors = {}
  /\ modelPath = <<>>
  /\ metadataPath = <<>>

Init ==
  /\ fn = ""
  /\ args = NoArgs
  /\ pc = "idle"
  /\ batch_index = 0
  /\ num_boxes = 0
  /\ boxes = <<>>
  /\ scores = <<>>
  /\ cls_indices = <<>>
  /\ box_indices = <<>>
  /\ nms_calls = <<>>
  /\ result = <<>>
  /\ error = ""
  /\ refs = {}
  /\ previous = <<>>
  /\ acc_sums = <<>>
  /\ final_mask = <<>>
  /\ AuxInit

current_batch == batches(fn, args)[batch_index + 1]

\* the caller invokes a decoder
Call ==
  /\ pc = "idle"
  /\ \E in \in Inputs :
       /\ fn' = in[1]
       /\ args' = in[2]
  /\ pc' = "called"
  /\ UNCHANGED <<batch_index, num_boxes, boxes, scores, cls_indices,
                 box_indices, nms_calls, result, error, refs, previous, mask_vars, aux_vars>>

Throw(kind) ==
  /\ pc' = "thrown"
  /\ error' = kind

\* everything before the loop over the batches
Validate ==
  /\ pc = "called"
  /\ UNCHANGED <<fn, args, batch_index, boxes, scores, cls_indices,
                 box_indices, nms_calls, result, refs, previous, mask_vars, aux_vars>>
  /\ IF IsSegment(fn) /\ getMaskShape(args) = <<>>
     THEN Throw("Error") /\ UNCHANGED num_boxes
     ELSE IF checkFirstBatch(fn, args) = "empty"
     THEN pc' = "returned" /\ UNCHANGED <<num_boxes, error>>
     ELSE IF checkFirstBatch(fn, args) = "Error"
     THEN Throw("Error") /\ UNCHANGED num_boxes
     ELSE IF IsClassify(fn)
     THEN pc' = "loop" /\ UNCHANGED <<num_boxes, error>>
     ELSE IF IsSegment(fn) /\ checkMasks(args) # "ok"
     THEN Throw(checkMasks(args))
          /\ num_boxes' = Len(batches(fn, args)[1][1])
     ELSE /\ pc' = "loop"
          /\ num_boxes' = Len(batches(fn, args)[1][1])
          /\ UNCHANGED error

\* the scoring loop over the slots of one batch
ScoreBatch ==
  /\ pc = "loop"
  /\ ~IsClassify(fn)
  /\ batch_index < Len(batches(fn, args))
  /\ UNCHANGED <<fn, args, batch_index, num_boxes, box_indices, nms_calls, result,
                 refs, previous, mask_vars, aux_vars>>
  /\ IF scoringThrows(args, current_batch, num_boxes)
     THEN Throw("TypeError") /\ UNCHANGED <<boxes, scores, cls_indices>>
     ELSE /\ boxes' = [s \in 1..num_boxes |->
                         Corners(At(current_batch, 0, s - 1), At(current_batch, 1, s - 1),
                                 At(current_batch, 2, s - 1), At(current_batch, 3, s - 1))]
          /\ scores' = [s \in 1..num_boxes |->
                          bestClass(fn, current_batch, args.num_classes, s - 1)[1]]
          /\ cls_indices' = [s \in 1..num_boxes |->
                               bestClass(fn, current_batch, args.num_classes, s - 1)[2]]
          /\ pc' = "scored"
          /\ UNCHANGED error

\* NMS (awaited by the suspending variants) or all the slots
SelectBoxes ==
  /\ pc = "scored"
  /\ box_indices' = IF IsSync(fn)
                     THEN selectBoxIndicesSync(args, boxes, scores, num_boxes)
                     ELSE selectBoxIndices(args, boxes, scores, num_boxes)
  /\ nms_calls' = IF Truthy(args.maxOutputSize)
                  THEN Append(nms_calls, batch_index) ELSE nms_calls
  /\ pc' = "selected"
  /\ UNCHANGED <<fn, args, batch_index, num_boxes, boxes, scores, cls_indices,
                 result, error, refs, previous, mask_vars, aux_vars>>

\* one result entry per selected slot, pushed as the entry of the batch
Materialize ==
  /\ pc = "selected"
  /\ UNCHANGED <<fn, args, num_boxes, boxes, scores, cls_indices, box_indices,
                 nms_calls, previous, mask_vars, aux_vars>>
  /\ IF materializeThrows(fn, args, current_batch, box_indices)
     THEN Throw("TypeError") /\ UNCHANGED <<batch_index, result, refs>>
     ELSE /\ refs' = IF IsSegment(fn)
                     THEN refs \cup {<<batch_index, "masks">>} ELSE refs
          /\ result' =
               Append(result,
                 IF IsSegment(fn)
                 THEN [bounding_boxes |->
                         bounding_boxes_of(fn, args, current_batch, cls_indices, box_indices),
                       masks |-> batch_masks_of(args, batch_index)]
                 ELSE bounding_boxes_of(fn, args, current_batch, cls_indices, box_indices))
          /\ batch_index' = batch_index + 1
          /\ pc' = "loop"
          /\ UNCHANGED error

\* one iteration of decodeClassify's loop
ClassifyBatch ==
  /\ pc = "loop"
  /\ IsClassify(fn)
  /\ batch_index < Len(args.output)
  /\ result' = Append(result, ImageResult(current_batch, args.num_classes))
  /\ refs' = refs \cup {<<batch_index, "all_confidences">>}
  /\ batch_index' = batch_index + 1
  /\ UNCHANGED <<fn, args, pc, num_boxes, boxes, scores, cls_indices,
                 box_indices, nms_calls, error, previous, mask_vars, aux_vars>>

\* return result
Return ==
  /\ pc = "loop"
  /\ batch_index = Len(batches(fn, args))
  /\ pc' = "returned"
  /\ UNCHANGED <<fn, args, batch_index, num_boxes, boxes, scores, cls_indices,
                 box_indices, nms_calls, result, error, refs, previous, mask_vars, aux_vars>>

\* the caller, after the suspending variant has settled, calls the blocking
\* variant with the same arguments
CallVariant ==
  /\ pc \in {"returned", "thrown"}
  /\ IsSuspending(fn)
  /\ previous' = <<[fn |-> fn, pc |-> pc, error |-> error, result |-> result]>>
  /\ fn' = Counterpart(fn)
  /\ pc' = "called"
  /\ batch_index' = 0
  /\ num_boxes' = 0
  /\ boxes' = <<>>
  /\ scores' = <<>>
  /\ cls_indices' = <<>>
  /\ box_indices' = <<>>
  /\ nms_calls' = <<>>
  /\ result' = <<>>
  /\ error' = ""
  /\ refs' = {}
  /\ UNCHANGED <<args, mask_vars, aux_vars>>

\* the input tensors of a decoder
TensorsOf(f) == IF IsSegment(f) THEN {"output_boxes", "output_masks"} ELSE {"output"}

\* what the caller writes: a number that no tensor of a call holds
WrittenValues == {-1}

\* batch b (1-based) of tensor t has a first number
CanWrite(f, a, t, b) ==
  IF t = "output_masks"
  THEN /\ b <= Len(a.output_masks) /\ Len(a.output_masks[b]) > 0
       /\ Len(a.output_masks[b][1]) > 0 /\ Len(a.output_masks[b][1][1]) > 0
  ELSE IF IsClassify(f) THEN b <= Len(a.output) /\ Len(a.output[b]) > 0
  ELSE /\ b <= Len(batches(f, a)) /\ Len(batches(f, a)[b]) > 0
       /\ Len(batches(f, a)[b][1]) > 0

\* the arguments after the first number of batch b of tensor t became v
writeFirst(f, a, t, b, v) ==
  IF t = "output_masks" THEN [a EXCEPT !.output_masks[b][1][1][1] = v]
  ELSE IF t = "output_boxes" THEN [a EXCEPT !.output_boxes[b][1][1] = v]
  ELSE IF IsClassify(f) THEN [a EXCEPT !.output[b][1] = v]
  ELSE [a EXCEPT !.output[b][1][1] = v]

\* the result as the caller reads it once the input is a2: an entry that
\* holds an array of the input shows the array's current contents
resultAfterWrite(a2) ==
  [r \in 1..Len(result) |->
     IF <<r - 1, "all_confidences">> \in refs
     THEN [result[r] EXCEPT !.all_confidences = a2.output[r]]
     ELSE IF <<r - 1, "masks">> \in refs
     THEN [result[r] EXCEPT !.masks = a2.output_masks[r]]
     ELSE result[r]]

\* the caller, holding the returned result, writes to a tensor it passed in
WriteInput ==
  /\ pc = "returned"
  /\ \E b \in 1..Len(result) : \E t \in TensorsOf(fn) : \E v \in WrittenValues :
       /\ CanWrite(fn, args, t, b)
       /\ args' = writeFirst(fn, args, t, b, v)
       /\ result' = resultAfterWrite(writeFirst(fn, args, t, b, v))
  /\ pc' = "written"
  /\ UNCHANGED <<fn, batch_index, num_boxes, boxes, scores, cls_indices,
                 box_indices, nms_calls, error, refs, previous, mask_vars, aux_vars>>

Next ==
  \/ Call
  \/ Validate
  \/ ScoreBatch
  \/ SelectBoxes
  \/ Materialize
  \/ ClassifyBatch
  \/ Return
  \/ CallVariant
  \/ WriteInput

Spec == Init /\ [][Next]_vars

\* ------------------------------------------------ combineMask, on its own
InitMask ==
  /\ fn = "combineMask"
  /\ args \in CombineMaskInputs
  /\ pc = "called"
  /\ batch_index = 0
  /\ num_boxes = 0
  /\ boxes = <<>>
  /\ scores = <<>>
  /\ cls_indices = <<>>
  /\ box_indices = <<>>
  /\ nms_calls = <<>>
  /\ result = <<>>
  /\ error = ""
  /\ refs = {}
  /\ previous = <<>>
  /\ acc_sums = <<>>
  /\ final_mask = <<>>
  /\ AuxInit

decode_vars == <<batch_index, num_boxes, boxes, scores, cls_indices,
                 box_indices, nms_calls, result, refs, previous, aux_vars>>

\* the three length reads and the comparison of the channel counts
CombineMaskCheck ==
  /\ pc = "called"
  /\ IF combineMask_check(args) # "ok"
     THEN Throw(combineMask_check(args))
     ELSE pc' = "rows" /\ UNCHANGED error
  /\ UNCHANGED <<fn, args, decode_vars, mask_vars>>

\* one iteration of the loop over h: the row final_mask[h]
CombineMaskRow ==
  /\ pc = "rows"
  /\ Len(final_mask) < Len(args.masks)
  /\ LET h == Len(final_mask)
         mask_width == Len(args.masks[1])
         nch == Len(args.masks[1][1])
         row == [w \in 1..mask_width |->
                   pixelSum(args.bounding_box.mask_coefficients,
                            args.masks[h + 1][w], nch)]
     IN /\ acc_sums' = Append(acc_sums, row)
        /\ final_mask' = Append(final_mask,
                                [w \in 1..mask_width |-> sigmoid(row[w])])
  /\ UNCHANGED <<fn, args, pc, error, decode_vars>>

\* return final_mask
CombineMaskReturn ==
  /\ pc = "rows"
  /\ Len(final_mask) = Len(args.masks)
  /\ pc' = "returned"
  /\ UNCHANGED <<fn, args, error, decode_vars, mask_vars>>

NextMask ==
  \/ CombineMaskCheck
  \/ CombineMaskRow
  \/ CombineMaskReturn

SpecMask == InitMask /\ [][NextMask]_vars

\* --------------------------------------- the decoders as run-to-completion
\* What a decoder does between two suspension points, as operators on the
\* locals of one call.

\* everything before the loop: "Error", "TypeError", "empty" or "ok"
validate(f, a) ==
  IF IsSegment(f) /\ getMaskShape(a) = <<>> THEN "Error"
  ELSE IF checkFirstBatch(f, a) # "ok" THEN checkFirstBatch(f, a)
  ELSE IF IsSegment(f) THEN checkMasks(a)
  ELSE "ok"

\* boxes, scores and cls_indices after the scoring loop over n slots
boxesOf(batch, n) ==
  [s \in 1..n |-> Corners(At(batch, 0, s - 1), At(batch, 1, s - 1),
                          At(batch, 2, s - 1), At(batch, 3, s - 1))]

scoresOf(f, a, batch, n) ==
  [s \in 1..n |-> bestClass(f, batch, a.num_classes, s - 1)[1]]

cls_indicesOf(f, a, batch, n) ==
  [s \in 1..n |-> bestClass(f, batch, a.num_classes, s - 1)[2]]

\* what result.push(...) appends for batch b (0-based), given the selection
resultEntry(f, a, b, cls, indices) ==
  IF IsSegment(f)
  THEN [bounding_boxes |-> bounding_boxes_of(f, a, batches(f, a)[b + 1], cls, indices),
        masks |-> batch_masks_of(a, b)]
  ELSE bounding_boxes_of(f, a, batches(f, a)[b + 1], cls, indices)

\* the loop from batch b (0-based) on, for a decoder that does not suspend
\* in it: a blocking variant, or any variant when maxOutputSize is falsy
RECURSIVE decodeFrom(_, _, _, _, _)
decodeFrom(f, a, n, b, acc) ==
  IF b >= Len(batches(f, a))
  THEN [pc |-> "returned", result |-> acc, error |-> ""]
  ELSE LET batch == batches(f, a)[b + 1]
       IN IF scoringThrows(a, batch, n)
          THEN [pc |-> "thrown", result |-> acc, error |-> "TypeError"]
          ELSE LET cls == cls_indicesOf(f, a, batch, n)
                   indices ==
                     IF IsSync(f)
                     THEN selectBoxIndicesSync(a, boxesOf(batch, n),
                                               scoresOf(f, a, batch, n), n)
                     ELSE selectBoxIndices(a, boxesOf(batch, n),
                                           scoresOf(f, a, batch, n), n)
               IN IF materializeThrows(f, a, batch, indices)
                  THEN [pc |-> "thrown", result |-> acc, error |-> "TypeError"]
                  ELSE decodeFrom(f, a, n, b + 1,
                                  Append(acc, resultEntry(f, a, b, cls, indices)))

\* a whole call that nothing interrupts
decodeAlone(f, a) ==
  IF validate(f, a) = "empty" THEN [pc |-> "returned", result |-> <<>>, error |-> ""]
  ELSE IF validate(f, a) # "ok"
  THEN [pc |-> "thrown", result |-> <<>>, error |-> validate(f, a)]
  ELSE decodeFrom(f, a, Len(batches(f, a)[1][1]), 0, <<>>)

\* ------------------------------------- suspending calls on one event loop
\* A call runs, uninterrupted, from where it is to its next await: the
\* suspending variants await tf.image.nonMaxSuppressionAsync(...) and then
\* box_indices_tensor.array(), once per batch when maxOutputSize is truthy.
\* A blocking variant runs to completion in one step.
MaxCalls == 2

call_vars == <<fn, args, pc, batch_index, num_boxes, boxes, scores, cls_indices,
               box_indices, nms_calls, result, error, refs, previous>>

\* two slots that overlap by half, two slots that do not overlap
OverlappingSlots == BatchOfColumns(<<<<3, 1, 6, 2, 2>>, <<5, 1, 6, 2, 1>>>>)
DisjointSlots == BatchOfColumns(<<<<3, 1, 6, 2, 1>>, <<9, 1, 6, 2, 2>>>>)

ConcurrentInputs ==
  (BoxFns \X BoxArgs(1, {<<OverlappingSlots>>, <<OverlappingSlots, DisjointSlots>>,
                         <<DisjointSlots, RaggedBatch(4)>>},
                     {None, Some(1)}, {None}, {None}))
  \cup ({"decodePose"} \X PoseArgs(1, 1, TRUE, {<<KeypointBatch(8, 2, 0)>>}, {Some(1)}))
  \cup ({"decodeSegment"} \X SegmentArgs(1, {Some(1)}, {<<1, 1>>}, {<<RaggedBatch(6)>>},
                                         {<<GoodMask>>}, {Some(1)}))

\* the locals of a call that has settled
Settled(f, a, outcome) ==
  [fn |-> f, args |-> a, pc |-> outcome.pc, batch_index |-> 0, num_boxes |-> 0,
   boxes |-> <<>>, scores |-> <<>>, cls_indices |-> <<>>,
   box_indices_tensor |-> <<>>, result |-> outcome.result, error |-> outcome.error]

\* the scoring loop of the batch at c.batch_index, up to the await of
\* nonMaxSuppressionAsync
enterBatch(c) ==
  LET batch == batches(c.fn, c.args)[c.batch_index + 1]
  IN IF scoringThrows(c.args, batch, c.num_boxes)
     THEN [c EXCEPT !.pc = "thrown", !.error = "TypeError"]
     ELSE [c EXCEPT !.pc = "await_nms",
                    !.boxes = boxesOf(batch, c.num_boxes),
                    !.scores = scoresOf(c.fn, c.args, batch, c.num_boxes),
                    !.cls_indices = cls_indicesOf(c.fn, c.args, batch, c.num_boxes)]

\* a call from its first statement to its first await, or to its end
startCall(f, a) ==
  IF validate(f, a) # "ok" \/ IsSync(f) \/ ~Truthy(a.maxOutputSize)
  THEN Settled(f, a, decodeAlone(f, a))
  ELSE enterBatch([fn |-> f, args |-> a, pc |-> "called", batch_index |-> 0,
                   num_boxes |-> Len(batches(f, a)[1][1]),
                   boxes |-> <<>>, scores |-> <<>>, cls_indices |-> <<>>,
                   box_indices_tensor |-> <<>>, result |-> <<>>, error |-> ""])

\* tf.tidy(fn): the tensors created inside fn are disposed when it ends
tidyKeepsAll(live, created) == live \cup created

tidy(live, created) == live \ created

\* the index tensors a blocking call creates inside tf.tidy, one per batch
\* it reaches with a truthy maxOutputSize
tensorsOfSync(i, f, a) ==
  IF IsSync(f) /\ validate(f, a) = "ok" /\ Truthy(a.maxOutputSize)
  THEN {[id |-> <<i, b>>, data |-> <<>>] : b \in 0..(Len(batches(f, a)) - 1)}
  ELSE {}

\* the caller invokes a decoder while other calls are suspended
StartCall ==
  /\ Len(calls) < MaxCalls
  /\ \E in \in ConcurrentInputs :
       /\ calls' = Append(calls, startCall(in[1], in[2]))
       /\ live_tensors' = tidy(live_tensors \cup tensorsOfSync(Len(calls) + 1, in[1], in[2]),
                               tensorsOfSync(Len(calls) + 1, in[1], in[2]))
  /\ UNCHANGED <<call_vars, mask_vars, baseline, modelPath, metadataPath>>

\* box_indices = await box_indices_tensor.array()
awaitedArrayOfAny(live, id) == (CHOOSE t \in live : TRUE).data

awaitedArray(live, id) == (CHOOSE t \in live : t.id = id).data

\* box_indices_tensor.dispose()
disposeNothing(live, id) == live

dispose(live, id) == {t \in live : t.id # id}

\* nonMaxSuppressionAsync resolves with a new index tensor; the call goes on
\* to await its array()
ResumeNms ==
  /\ \E i \in 1..Len(calls) :
       /\ calls[i].pc = "await_nms"
       /\ live_tensors' = live_tensors \cup
            {[id |-> <<i, calls[i].batch_index>>,
              data |-> selectBoxIndices(calls[i].args, calls[i].boxes,
                                        calls[i].scores, calls[i].num_boxes)]}
       /\ calls' = [calls EXCEPT ![i].pc = "await_array",
                                 ![i].box_indices_tensor =
                                    <<<<i, calls[i].batch_index>>>>]
  /\ UNCHANGED <<call_vars, mask_vars, baseline, modelPath, metadataPath>>

\* array() resolves: dispose the tensor, materialise the batch, and go on to
\* the next batch's await or to the return
ResumeArray ==
  /\ \E i \in 1..Len(calls) :
       LET c == calls[i]
           batch == batches(c.fn, c.args)[c.batch_index + 1]
           indices == awaitedArray(live_tensors, c.box_indices_tensor[1])
           pushed == [c EXCEPT !.box_indices_tensor = <<>>,
                               !.result = Append(c.result,
                                  resultEntry(c.fn, c.args, c.batch_index,
                                              c.cls_indices, indices)),
                               !.batch_index = c.batch_index + 1]
       IN /\ c.pc = "await_array"
          /\ live_tensors' = dispose(live_tensors, c.box_indices_tensor[1])
          /\ calls' = [calls EXCEPT ![i] =
               IF materializeThrows(c.fn, c.args, batch, indices)
               THEN [c EXCEPT !.pc = "thrown", !.error = "TypeError",
                              !.box_indices_tensor = <<>>]
               ELSE IF pushed.batch_index >= Len(batches(c.fn, c.args))
               THEN [pushed EXCEPT !.pc = "returned"]
               ELSE enterBatch(pushed)]
  /\ UNCHANGED <<call_vars, mask_vars, baseline, modelPath, metadataPath>>

NextConcurrent ==
  \/ StartCall
  \/ ResumeNms
  \/ ResumeArray

SpecConcurrent == Init /\ [][NextConcurrent]_vars

\* --------------------------------------------------------- loadYoloModel
\* loadYoloModel of tensorflow/node.ts.  A path is a sequence of pieces: the
\* characters "/" and ":", the words "model.json", "metadata.yaml", "file"
\* and "http", and "a" for any other text.
MaxPathLen == 4

PathPieces == {"a", "/", ":", "model.json", "file", "http"}

Paths == UNION {[1..l -> PathPieces] : l \in 0..MaxPathLen}

ModelJsonSuffix == <<"/", "model.json">>
SchemeSeparator == <<":", "/", "/">>
FileScheme == <<"file", ":", "/", "/">>
HttpScheme == <<"http", ":", "/", "/">>

\* String.prototype.endsWith, startsWith, includes
endsWith(str, suffix) ==
  /\ Len(str) >= Len(suffix)
  /\ SubSeq(str, Len(str) - Len(suffix) + 1, Len(str)) = suffix

startsWith(str, prefix) ==
  Len(str) >= Len(prefix) /\ SubSeq(str, 1, Len(prefix)) = prefix

includes(str, sub) ==
  \E i \in 1..(Len(str) - Len(sub) + 1) : SubSeq(str, i, i + Len(sub) - 1) = sub

\* if (!modelPath.endsWith('/model.json')) modelPath = modelPath + '/model.json'
withModelJsonAlways(path) == path \o ModelJsonSuffix

withModelJson(path) ==
  IF ~endsWith(path, ModelJsonSuffix) THEN path \o ModelJsonSuffix ELSE path

\* if (!modelPath.includes('://')) modelPath = 'file://' + modelPath
withScheme(path) ==
  IF ~includes(path, SchemeSeparator) THEN FileScheme \o path ELSE path

\* modelPath.replace(/model\.json$/, 'metadata.yaml')
replaceModelJson(path) ==
  IF Len(path) > 0 /\ path[Len(path)] = "model.json"
  THEN SubSeq(path, 1, Len(path) - 1) \o <<"metadata.yaml">>
  ELSE path

\* loadText: readFile for file://, loadTextFromUrl for http://, else an Error
loadText(path) ==
  IF startsWith(path, FileScheme) THEN "readFile"
  ELSE IF startsWith(path, HttpScheme) THEN "loadTextFromUrl"
  ELSE "Error"

InitLoad ==
  /\ fn = "loadYoloModel"
  /\ args \in [modelPath : Paths]
  /\ pc = "called"
  /\ batch_index = 0
  /\ num_boxes = 0
  /\ boxes = <<>>
  /\ scores = <<>>
  /\ cls_indices = <<>>
  /\ box_indices = <<>>
  /\ nms_calls = <<>>
  /\ result = <<>>
  /\ error = ""
  /\ refs = {}
  /\ previous = <<>>
  /\ acc_sums = <<>>
  /\ final_mask = <<>>
  /\ baseline = <<>>
  /\ calls = <<>>
  /\ live_tensors = {}
  /\ modelPath = args.modelPath
  /\ metadataPath = <<>>

load_frame == <<fn, args, batch_index, num_boxes, boxes, scores, cls_indices,
                box_indices, nms_calls, refs, previous, mask_vars,
                baseline, calls, live_tensors>>

\* the two ifs that complete the path
LoadCompletePath ==
  /\ pc = "called"
  /\ modelPath' = withScheme(withModelJson(modelPath))
  /\ pc' = "completed"
  /\ UNCHANGED <<load_frame, result, error, metadataPath>>

\* tf.loadGraphModel(modelPath) is started, metadataPath derived
LoadGraphModel ==
  /\ pc = "completed"
  /\ result' = <<[loadGraphModel |-> modelPath]>>
  /\ metadataPath' = replaceModelJson(modelPath)
  /\ pc' = "loading"
  /\ UNCHANGED <<load_frame, error, modelPath>>

\* loadText(metadataPath)
LoadMetadata ==
  /\ pc = "loading"
  /\ IF loadText(metadataPath) = "Error"
     THEN Throw("Error") /\ UNCHANGED result
     ELSE /\ result' = Append(result, [loadText |-> loadText(metadataPath),
                                       path |-> metadataPath])
          /\ pc' = "returned"
          /\ UNCHANGED error
  /\ UNCHANGED <<load_frame, modelPath, metadataPath>>

NextLoad ==
  \/ LoadCompletePath
  \/ LoadGraphModel
  \/ LoadMetadata

SpecLoad == InitLoad /\ [][NextLoad]_vars

\* ------------------------------------------------- two calls, one after
\* A caller decodes an input and then decodes it again after changing only
\* channels or options that the decoder is not to look at.
MaxRerunSlots == 2

ExtraValues == {0, 3}

RerunColumns == {<<x, Geometry[2], Geometry[3], Geometry[4], s>> :
                   x \in XSet, s \in NmsScores}

\* one batch of up to MaxRerunSlots slots, one class, extra channels of zeros
RerunTensors(extra) ==
  UNION {{<<BatchOfColumns([s \in 1..n |-> cols[s] \o [c \in 1..extra |-> 0]])>> :
            cols \in [1..n -> RerunColumns]} :
           n \in 1..MaxRerunSlots}

RerunMaxes == {None, Some(1), Some(MaxRerunSlots)}

RerunInputs ==
  (BoxFns \X BoxArgs(1, RerunTensors(0), RerunMaxes, {None}, {None}))
  \cup (PoseFns \X PoseArgs(1, 1, FALSE, RerunTensors(2), RerunMaxes))
  \cup (SegmentFns \X SegmentArgs(1, {Some(1)}, {<<1, 1>>}, RerunTensors(1),
                                   {<<GoodMask>>}, RerunMaxes))

\* batch with the channels after the class channels replaced by those of e
withExtraChannels(batch, nc, e) ==
  [ch \in 1..Len(batch) |-> IF ch <= 4 + nc THEN batch[ch] ELSE e[ch]]

ExtraChannels(batch, nc) ==
  [(4 + nc + 1)..Len(batch) -> [1..Len(batch[1]) -> ExtraValues]]

\* the arguments of the second call: other thresholds for a box decoder,
\* other keypoint or mask-coefficient channels for a pose or segment decoder
Variations(f, a) ==
  IF IsBox(f)
  THEN {[a EXCEPT !.iouThreshold = i, !.scoreThreshold = t] :
          i \in IouThresholds, t \in ScoreThresholds} \ {a}
  ELSE IF IsSegment(f)
  THEN {[a EXCEPT !.output_boxes =
                    <<withExtraChannels(a.output_boxes[1], a.num_classes, e)>>] :
          e \in ExtraChannels(a.output_boxes[1], a.num_classes)} \ {a}
  ELSE {[a EXCEPT !.output = <<withExtraChannels(a.output[1], a.num_classes, e)>>] :
          e \in ExtraChannels(a.output[1], a.num_classes)} \ {a}

\* the first call
CallFirst ==
  /\ pc = "idle"
  /\ \E in \in RerunInputs :
       /\ fn' = in[1]
       /\ args' = in[2]
  /\ pc' = "called"
  /\ UNCHANGED <<batch_index, num_boxes, boxes, scores, cls_indices,
                 box_indices, nms_calls, result, error, refs, previous, mask_vars, aux_vars>>

\* the first call has settled; the caller keeps its outcome and calls again
CallAgain ==
  /\ pc \in {"returned", "thrown"}
  /\ baseline = <<>>
  /\ baseline' = <<[fn |-> fn, args |-> args, pc |-> pc, error |-> error,
                    result |-> result, box_indices |-> box_indices]>>
  /\ args' \in Variations(fn, args)
  /\ pc' = "called"
  /\ batch_index' = 0
  /\ num_boxes' = 0
  /\ boxes' = <<>>
  /\ scores' = <<>>
  /\ cls_indices' = <<>>
  /\ box_indices' = <<>>
  /\ nms_calls' = <<>>
  /\ result' = <<>>
  /\ error' = ""
  /\ refs' = {}
  /\ UNCHANGED <<fn, previous, mask_vars, calls, live_tensors, modelPath, metadataPath>>

NextRerun ==
  \/ CallFirst
  \/ Validate
  \/ ScoreBatch
  \/ SelectBoxes
  \/ Materialize
  \/ Return
  \/ CallAgain

SpecRerun == Init /\ [][NextRerun]_vars

\* ===================================================== the properties
Returned == pc = "returned"

FirstBatchEmpty == Len(batches(fn, args)[1]) = 0

\* NMS ran for the batches of this call: maxOutputSize is a non-zero number
NmsApplied == Returned /\ ~IsClassify(fn) /\ Truthy(args.maxOutputSize)

\* the class confidences of slot s (0-based) as the raw tensor holds them
RawConfidences(batch, nc, s) == [i \in 1..nc |-> batch[4 + i][s + 1]]

\* best class score of slot s, from the raw tensor
RawBestScore(batch, nc, s) == SeqMax(RawConfidences(batch, nc, s))

\* bb carries the geometry and the class confidences of slot s of batch
IsSlot(bb, batch, nc, s) ==
  /\ bb.x = batch[1][s + 1]
  /\ bb.y = batch[2][s + 1]
  /\ bb.width = batch[3][s + 1]
  /\ bb.height = batch[4][s + 1]
  /\ bb.all_confidences = RawConfidences(batch, nc, s)

\* corner form (times 2) of a returned box, from its centre form
ReturnedCorners(bb) ==
  <<2 * bb.x - bb.width, 2 * bb.y - bb.height,
    2 * bb.x + bb.width, 2 * bb.y + bb.height>>

EffectiveIouThreshold ==
  IF args.iouThreshold = <<>> THEN <<1, 2>> ELSE args.iouThreshold[1]

ConfidenceIsFirstMax(bb) ==
  /\ bb.confidence = bb.all_confidences[bb.class_index + 1]
  /\ bb.confidence = SeqMax(bb.all_confidences)
  /\ bb.class_index = FirstArgMax(bb.all_confidences)

\* C1: every box returned by decodeBox / decodeBoxSync has confidence =
\* all_confidences[class_index] = max(all_confidences), and class_index is the
\* lowest index attaining that maximum.
C1_BoxConfidenceIsFirstMax ==
  (Returned /\ IsBox(fn)) =>
    \A b \in 1..Len(result) : \A k \in 1..Len(result[b]) :
      ConfidenceIsFirstMax(result[b][k])

\* a returned box whose best class is not class 0, next to a box with a tie
C1_Witness ==
  /\ Returned /\ IsBox(fn)
  /\ \E b \in 1..Len(result) : \E k \in 1..Len(result[b]) :
       result[b][k].class_index = 1
  /\ \E b \in 1..Len(result) : \E k \in 1..Len(result[b]) :
       /\ Len(result[b][k].all_confidences) = 2
       /\ result[b][k].all_confidences[1] = result[b][k].all_confidences[2]
       /\ result[b][k].all_confidences[1] > 0

\* C2: every box returned by decodePose / decodePoseSync of
\* yolo-pose/common.ts is scored on the class channels of its own slot:
\* confidence = max(all_confidences), class_index the lowest index attaining it.
C2_LegacyPoseScoredOnOwnSlot ==
  (Returned /\ IsLegacyPose(fn)) =>
    \A b \in 1..Len(result) : \A k \in 1..Len(result[b]) :
      ConfidenceIsFirstMax(result[b][k])

\* every batch of the input is a vector of one common length
TensorShaped(output) == \A b \in 1..Len(output) : Len(output[b]) = Len(output[1])

C4_AllSlotsInOrder ==
  (Returned /\ IsBox(fn) /\ args.maxOutputSize = <<>>) =>
    /\ ~FirstBatchEmpty => Len(result) = Len(args.output)
    /\ \A b \in 1..Len(result) :
         /\ Len(result[b]) = Len(args.output[1][1])
         /\ \A i \in 1..Len(result[b]) :
              IsSlot(result[b][i], args.output[b], args.num_classes, i - 1)

\* three slots returned in slot order although the last scores highest
C4_Witness ==
  /\ Returned /\ IsBox(fn) /\ args.maxOutputSize = <<>>
  /\ Len(result) = 1 /\ Len(result[1]) = 3
  /\ result[1][1].confidence < result[1][3].confidence
  /\ result[1][1].x # result[1][2].x
  /\ result[1][2].x # result[1][3].x

\* C5: with maxOutputSize provided, 0 included, every batch of the result of
\* decodeBox / decodeBoxSync holds at most maxOutputSize boxes.
C5_AtMostMaxOutputSize ==
  (Returned /\ IsBox(fn) /\ IsProvided(args.maxOutputSize)) =>
    \A b \in 1..Len(result) : Len(result[b]) <= args.maxOutputSize[1]

\* C6: when NMS is applied, no two boxes of one batch of the result overlap
\* with an IoU above iouThreshold (an IoU equal to the threshold is allowed).
C6_NoOverlapAboveThreshold ==
  (NmsApplied /\ IsBox(fn)) =>
    \A b \in 1..Len(result) : \A i, j \in 1..Len(result[b]) :
      i # j => ~IoUExceeds(ReturnedCorners(result[b][i]),
                           ReturnedCorners(result[b][j]), EffectiveIouThreshold)

\* two boxes returned whose IoU is exactly the threshold
C6_Witness ==
  /\ NmsApplied /\ IsBox(fn)
  /\ \E b \in 1..Len(result) : \E i, j \in 1..Len(result[b]) :
       /\ i # j
       /\ IoU(ReturnedCorners(result[b][i]), ReturnedCorners(result[b][j]))[1]
            * EffectiveIouThreshold[2]
          = EffectiveIouThreshold[1]
            * IoU(ReturnedCorners(result[b][i]), ReturnedCorners(result[b][j]))[2]

\* C7: when NMS is applied, every returned box has a confidence above
\* scoreThreshold, and no slot whose best class score is not above
\* scoreThreshold is returned.
C7_AboveScoreThreshold ==
  (NmsApplied /\ IsBox(fn) /\ IsProvided(args.scoreThreshold)) =>
    \A b \in 1..Len(result) :
      /\ \A k \in 1..Len(result[b]) :
           result[b][k].confidence > args.scoreThreshold[1]
      /\ \A s \in 0..(Len(args.output[1][1]) - 1) :
           RawBestScore(args.output[b], args.num_classes, s) <= args.scoreThreshold[1]
             => \A k \in 1..Len(result[b]) :
                  ~IsSlot(result[b][k], args.output[b], args.num_classes, s)

\* slot 0 scores exactly the threshold and is filtered, slot 1 scores above
\* it and is the one box returned
C7_Witness ==
  /\ NmsApplied /\ IsBox(fn) /\ IsProvided(args.scoreThreshold)
  /\ Len(args.output[1][1]) >= 2
  /\ args.output[1][5][1] = args.scoreThreshold[1]
  /\ args.output[1][5][2] > args.scoreThreshold[1]
  /\ Len(result[1]) = 1

\* C8: with maxOutputSize = 1 every batch of the decodeBox result is the one
\* slot of highest best-class score, with that slot's geometry and class, if
\* that score exceeds scoreThreshold, and is empty otherwise.
C8_SingleBestBox ==
  (Returned /\ IsBox(fn) /\ args.maxOutputSize = <<1>>) =>
    \A b \in 1..Len(result) :
      LET slots == 0..(Len(args.output[1][1]) - 1)
          best == CHOOSE m \in {RawBestScore(args.output[b], args.num_classes, s) : s \in slots} :
                    \A s \in slots : RawBestScore(args.output[b], args.num_classes, s) <= m
      IN IF args.scoreThreshold = <<>> \/ best > args.scoreThreshold[1]
         THEN /\ Len(result[b]) = 1
              /\ result[b][1].confidence = best
              /\ \E s \in slots :
                   /\ RawBestScore(args.output[b], args.num_classes, s) = best
                   /\ IsSlot(result[b][1], args.output[b], args.num_classes, s)
                   /\ result[b][1].class_index
                        = FirstArgMax(RawConfidences(args.output[b], args.num_classes, s))
         ELSE result[b] = <<>>

\* the best slot is the last of three and passes the threshold
C8_Witness ==
  /\ Returned /\ IsBox(fn) /\ args.maxOutputSize = <<1>>
  /\ args.scoreThreshold = <<1>>
  /\ Len(args.output[1][1]) = 3
  /\ args.output[1][5] = <<1, 1, 2>>
  /\ Len(result[1]) = 1
  /\ result[1][1].x = args.output[1][1][3]
  /\ result[1][1].x # args.output[1][1][1]

\* every slot scores at or below the threshold: the batch is empty
C8_WitnessEmpty ==
  /\ Returned /\ IsBox(fn) /\ args.maxOutputSize = <<1>>
  /\ args.scoreThreshold = <<1>>
  /\ Len(result) = 1 /\ result[1] = <<>>

\* C9: when the first batch has zero channels, every decoder returns an
\* empty result and throws nothing, whatever the other batches and the
\* other arguments are.
C9_EmptyFirstBatchReturnsEmpty ==
  (pc \notin {"idle", "called"} /\ FirstBatchEmpty) =>
    /\ pc = "returned"
    /\ result = <<>>
    /\ error = ""

\* decodeSegment short-circuits although a later batch has channels and the
\* prototype masks are malformed
C9_Witness ==
  /\ Returned /\ IsSegment(fn) /\ FirstBatchEmpty
  /\ Len(args.output_boxes) = 2 /\ Len(args.output_boxes[2]) > 0
  /\ args.output_masks = <<<<>>>>
  /\ IsProvided(args.maxOutputSize) = FALSE
  /\ result = <<>>

C9_WitnessClassify ==
  /\ Returned /\ IsClassify(fn) /\ FirstBatchEmpty
  /\ Len(args.output) = 2 /\ Len(args.output[2]) > 0
  /\ result = <<>>

\* C10: decodeBox / decodeBoxSync return no result when any batch, the first
\* or a later one, has a channel count other than 4 + num_classes (the first
\* batch being non-empty).
C10_FailsOnAnyMalformedBatch ==
  (IsBox(fn) /\ ~FirstBatchEmpty
     /\ \E b \in 1..Len(args.output) : Len(args.output[b]) # 4 + args.num_classes)
    => pc # "returned"

\* the two tensors of a decodeSegment call differ in their batch counts
BatchCountsDiffer == Len(args.output_boxes) # Len(args.output_masks)

\* C11 as stated: decodeSegment / decodeSegmentSync return no result for
\* every input whose output_boxes and output_masks differ in batch count.
C11_FailsOnAnyBatchCountMismatch ==
  (IsSegment(fn) /\ pc \notin {"idle", "called"} /\ BatchCountsDiffer)
    => pc # "returned"

\* C11: decodeSegment / decodeSegmentSync throw, and return no result, for
\* every input whose first box batch is not empty and whose output_boxes and
\* output_masks differ in batch count.
C11_FailsOnBatchCountMismatch ==
  (IsSegment(fn) /\ pc \notin {"idle", "called"} /\ BatchCountsDiffer
     /\ ~FirstBatchEmpty)
    => /\ pc = "thrown"
       /\ error # ""
       /\ result = <<>>

\* both tensors pass every shape check and only their batch counts differ
C11_Witness ==
  /\ IsSegment(fn) /\ pc = "thrown" /\ error = "Error"
  /\ checkFirstBatch(fn, args) = "ok"
  /\ Len(args.output_boxes) = 1
  /\ args.output_masks = <<GoodMask, GoodMask>>
  /\ result = <<>>

\* C12: whenever decodeBox or decodeSegment (either variant) ends in an
\* error, the error is raised before any slot of any batch has been scored,
\* before the first NMS invocation and before any batch has been materialised.
C12_ErrorsBeforeProcessing ==
  ((IsBox(fn) \/ IsSegment(fn)) /\ pc = "thrown")
    => /\ batch_index = 0
       /\ boxes = <<>> /\ scores = <<>>
       /\ nms_calls = <<>>
       /\ result = <<>>

\* C13: every box returned by decodePose / decodePoseSync, with visibility
\* true and with visibility false, has exactly num_keypoints keypoints.
C13_ExactlyNumKeypoints ==
  (Returned /\ IsPose(fn)) =>
    \A b \in 1..Len(result) : \A k \in 1..Len(result[b]) :
      Len(result[b][k].keypoints) = args.num_keypoints

\* the keypoints kps are the raw keypoint channels (x, y, visibility per
\* keypoint) of slot s (0-based) of batch
KeypointsOfSlot(kps, batch, base, nk, s) ==
  /\ Len(kps) = nk
  /\ \A j \in 0..(nk - 1) :
       /\ kps[j + 1].x = batch[base + 3 * j + 1][s + 1]
       /\ kps[j + 1].y = batch[base + 3 * j + 2][s + 1]
       /\ kps[j + 1].visibility = batch[base + 3 * j + 3][s + 1]

\* C14: in decodePose / decodePoseSync, with visibility false every returned
\* keypoint has visibility 1; with visibility true a box has a keypoint for
\* every j < num_keypoints and its x, y and visibility are the raw values of
\* channels 4 + num_classes + 3j, + 1 and + 2 at the slot of the box.
C14_KeypointValues ==
  (Returned /\ IsPose(fn)) =>
    \A b \in 1..Len(result) : \A k \in 1..Len(result[b]) :
      IF args.visibility
      THEN \E s \in 0..(Len(args.output[b][1]) - 1) :
             /\ IsSlot(result[b][k], args.output[b], args.num_classes, s)
             /\ args.maxOutputSize = <<>> => s = k - 1
             /\ KeypointsOfSlot(result[b][k].keypoints, args.output[b],
                                4 + args.num_classes, args.num_keypoints, s)
      ELSE \A j \in 1..Len(result[b][k].keypoints) :
             result[b][k].keypoints[j].visibility = 1

\* a layout without visibility channel returns a keypoint, and its raw
\* channels hold no 1
C14_Witness ==
  /\ Returned /\ IsPose(fn) /\ ~args.visibility
  /\ Len(result) = 1 /\ Len(result[1]) = 2
  /\ Len(result[1][2].keypoints) >= 1
  /\ result[1][2].keypoints[1].x # 1
  /\ result[1][2].keypoints[1].visibility = 1

\* two keypoints with visibility channel, read at the second slot
C14_WitnessVisibility ==
  /\ Returned /\ IsPose(fn) /\ args.visibility
  /\ args.num_keypoints = 2
  /\ Len(result) = 1 /\ Len(result[1]) = 2
  /\ Len(result[1][2].keypoints) = 2
  /\ result[1][2].keypoints[2].visibility # result[1][2].keypoints[2].y
  /\ result[1][2].keypoints[2].visibility # result[1][1].keypoints[2].visibility

\* ------------------------------------------------ properties of combineMask
mask_coefficients == args.bounding_box.mask_coefficients

\* masks has a pixel, so that its channel count is defined
HasPixel(masks) == Len(masks) > 0 /\ Len(masks[1]) > 0

AllZero(s) == \A i \in 1..Len(s) : s[i] = 0

\* the sum over i of c[i] * m[i]
RECURSIVE DotProduct(_, _)
DotProduct(c, m) ==
  IF c = <<>> THEN 0 ELSE c[1] * m[1] + DotProduct(Tail(c), Tail(m))

ScaleFactors == {-1, 0, 2, 3}

Scaled(c, k) == [i \in 1..Len(c) |-> k * c[i]]

\* C15: combineMask throws, and produces no mask, whenever the length of
\* mask_coefficients differs from the channel count of the prototype masks.
C15_ThrowsOnChannelMismatch ==
  (fn = "combineMask" /\ pc # "called" /\ HasPixel(args.masks)
     /\ Len(mask_coefficients) # Len(args.masks[1][1]))
    => /\ pc = "thrown"
       /\ error # ""
       /\ final_mask = <<>>

\* three coefficients for two channels
C15_Witness ==
  /\ fn = "combineMask" /\ pc = "thrown" /\ error = "Error"
  /\ Len(mask_coefficients) = 3
  /\ HasPixel(args.masks) /\ Len(args.masks[1][1]) = 2
  /\ final_mask = <<>>

\* one coefficient for two channels
C15_WitnessShorter ==
  /\ fn = "combineMask" /\ pc = "thrown" /\ error = "Error"
  /\ Len(mask_coefficients) = 1
  /\ HasPixel(args.masks) /\ Len(args.masks[1][1]) = 2

\* C16: for mask_coefficients that are all zero and prototype masks of the
\* same channel count, combineMask returns mask_height rows of mask_width
\* pixels, each of raw sum 0 and value sigmoid(0) = one half.
C16_ZeroCoefficientsGiveHalf ==
  (fn = "combineMask" /\ pc = "returned" /\ AllZero(mask_coefficients)) =>
    /\ Len(final_mask) = Len(args.masks)
    /\ \A h \in 1..Len(final_mask) :
         /\ Len(final_mask[h]) = Len(args.masks[1])
         /\ \A w \in 1..Len(final_mask[h]) :
              /\ acc_sums[h][w] = 0
              /\ 2 * final_mask[h][w] = SigmoidScale

\* a 2 x 2 mask of two channels whose prototype values are not all zero
C16_Witness ==
  /\ fn = "combineMask" /\ pc = "returned"
  /\ mask_coefficients = <<0, 0>>
  /\ Len(args.masks) = 2 /\ Len(args.masks[1]) = 2
  /\ args.masks[1][1][1] # 0 /\ args.masks[2][2][2] # 0
  /\ Len(final_mask) = 2

\* C17: the value of pixel (h, w) before the sigmoid is the sum over i of
\* mask_coefficients[i] * masks[h][w][i], and with every coefficient
\* multiplied by k that sum is multiplied by k.
C17_LinearInCoefficients ==
  (fn = "combineMask" /\ pc = "returned") =>
    \A h \in 1..Len(args.masks) : \A w \in 1..Len(args.masks[1]) :
      /\ acc_sums[h][w] = DotProduct(mask_coefficients, args.masks[h][w])
      /\ \A k \in ScaleFactors :
           pixelSum(Scaled(mask_coefficients, k), args.masks[h][w],
                    Len(args.masks[1][1]))
             = k * acc_sums[h][w]

\* two non-zero coefficients and a non-zero sum
C17_Witness ==
  /\ fn = "combineMask" /\ pc = "returned"
  /\ Len(mask_coefficients) = 2
  /\ mask_coefficients[1] # 0 /\ mask_coefficients[2] # 0
  /\ acc_sums[1][1] # 0
  /\ args.masks[1][1][1] # 0 /\ args.masks[1][1][2] # 0

C18_WitnessThrown ==
  /\ previous # <<>> /\ pc = "thrown"
  /\ batch_index = 1
  /\ previous[1].pc = "thrown"

\* C19: a write to an input tensor after the call has returned never changes
\* the returned result (no array of the result is an array of the input).
C19_WriteNeverChangesResult ==
  [][pc' = "written" => result' = result]_vars

\* C20: for an input that decodeSegment / decodeSegmentSync accept,
\* result[b].masks has the contents of output_masks[b] for every batch b, and
\* no step of the decoder changes output_masks or output_boxes.
C20_MasksReturnedUnmodified ==
  /\ []((Returned /\ IsSegment(fn) /\ ~FirstBatchEmpty) =>
          /\ Len(result) = Len(args.output_masks)
          /\ \A b \in 1..Len(result) : result[b].masks = args.output_masks[b])
  /\ [][(IsSegment(fn) /\ pc \notin {"returned", "thrown"}) => args' = args]_vars

\* two batches returned, each with its own masks
C20_Witness ==
  /\ Returned /\ IsSegment(fn)
  /\ Len(result) = 2
  /\ args.output_masks[1] # args.output_masks[2]
  /\ result[2].masks = args.output_masks[2]
  /\ Len(result[2].bounding_boxes) = 1

\* ------------------------------------------- properties of concurrent calls
IsSettled(c) == c.pc \in {"returned", "thrown"}

\* C21: however suspending calls interleave at their awaits, a call that
\* has settled returned the result, or threw the error, of the same call run
\* alone.
C21_InterleavingKeepsResults ==
  \A i \in 1..Len(calls) :
    IsSettled(calls[i]) =>
      /\ calls[i].pc = decodeAlone(calls[i].fn, calls[i].args).pc
      /\ calls[i].error = decodeAlone(calls[i].fn, calls[i].args).error
      /\ calls[i].pc = "returned" =>
           calls[i].result = decodeAlone(calls[i].fn, calls[i].args).result

\* the second call ran through two batches with NMS and returned while the
\* first call, started before it, is suspended and holds an index tensor
\* whose contents differ from every selection of the second call
C21_Witness ==
  /\ Len(calls) = 2
  /\ calls[1].pc = "await_array"
  /\ calls[2].pc = "returned" /\ IsSuspending(calls[2].fn)
  /\ Truthy(calls[2].args.maxOutputSize)
  /\ Len(calls[2].result) = 2
  /\ calls[1].args # calls[2].args
  /\ live_tensors # {}

\* ----------------------------------------------- properties of loadYoloModel
\* the paths that loadYoloModel(path) loads from: <<model, metadata>>
LoadedFrom(path) ==
  <<withScheme(withModelJson(path)),
    replaceModelJson(withScheme(withModelJson(path)))>>

\* C22: for a path that does not end in /model.json, the call loads the
\* model and the metadata from where a call with path + '/model.json' loads
\* them; the metadata path is the model path with its final model.json
\* replaced by metadata.yaml; completing a completed path changes nothing.
C22_SuffixIsOptional ==
  (fn = "loadYoloModel" /\ pc \in {"loading", "returned", "thrown"}) =>
    /\ ~endsWith(args.modelPath, ModelJsonSuffix) =>
         <<modelPath, metadataPath>> = LoadedFrom(args.modelPath \o ModelJsonSuffix)
    /\ result[1].loadGraphModel = modelPath
    /\ endsWith(modelPath, ModelJsonSuffix)
    /\ metadataPath
         = SubSeq(modelPath, 1, Len(modelPath) - 1) \o <<"metadata.yaml">>
    /\ withScheme(withModelJson(modelPath)) = modelPath

\* a relative directory: suffix and file:// are both added
C22_Witness ==
  /\ fn = "loadYoloModel" /\ pc = "returned"
  /\ args.modelPath = <<"a", "/", "a">>
  /\ modelPath = <<"file", ":", "/", "/", "a", "/", "a", "/", "model.json">>
  /\ metadataPath = <<"file", ":", "/", "/", "a", "/", "a", "/", "metadata.yaml">>

\* an http directory whose name is model.json: only the suffix is added
C22_WitnessUrl ==
  /\ fn = "loadYoloModel" /\ pc = "returned"
  /\ args.modelPath = <<"http", ":", "/", "/">>
  /\ modelPath = <<"http", ":", "/", "/", "/", "model.json">>

\* ------------------------------------------------- properties of the batches
\* the entry a decoder computes from batch b (1-based) taken by itself: the
\* loop body on that batch with the batch's own number of slots
EntryOfOwnBatch(b) ==
  LET batch == batches(fn, args)[b]
  IN IF IsClassify(fn) THEN ImageResult(batch, args.num_classes)
     ELSE LET n == Len(batch[1])
          IN resultEntry(fn, args, b - 1, cls_indicesOf(fn, args, batch, n),
                         selectBoxIndices(args, boxesOf(batch, n),
                                          scoresOf(fn, args, batch, n), n))

\* C23: a result of decodeBox, decodePose, decodeSegment or decodeClassify
\* on an input whose first batch is not empty has one entry per input batch,
\* and entry b is what the decoder computes from batch b alone.
C23_EntryFromOwnBatch ==
  (/\ Returned
   /\ fn \in {"decodeBox", "decodePose", "decodeSegment", "decodeClassify"}
   /\ ~FirstBatchEmpty) =>
    /\ Len(result) = Len(batches(fn, args))
    /\ \A b \in 1..Len(result) : result[b] = EntryOfOwnBatch(b)

\* the boxes of entry b (1-based) of the result
BoxesOfEntry(b) ==
  IF IsSegment(fn) THEN result[b].bounding_boxes ELSE result[b]

\* C24: when NMS is applied, the k-th box of a batch is the slot NMS selected
\* k-th, and the confidences do not increase from one box to the next.
C24_NmsOrderKept ==
  NmsApplied =>
    \A b \in 1..Len(result) :
      LET batch == batches(fn, args)[b]
          scs == scoresOf(fn, args, batch, num_boxes)
          selected == nonMaxSuppression(boxesOf(batch, num_boxes), scs,
                                        args.maxOutputSize[1],
                                        args.iouThreshold, args.scoreThreshold)
          bbs == BoxesOfEntry(b)
      IN /\ Len(bbs) = Len(selected)
         /\ \A k \in 1..Len(bbs) : bbs[k].x = At(batch, 0, selected[k])
         /\ \A k \in 1..(Len(bbs) - 1) :
              bbs[k].confidence >= bbs[k + 1].confidence

\* ------------------------------------------------ properties of two calls
\* both calls returned
BothReturned == baseline # <<>> /\ baseline[1].pc = "returned" /\ Returned

\* the fields of a box that every decoder fills from the box and class channels
BoxFields(bb) ==
  <<bb.x, bb.y, bb.width, bb.height, bb.class_index, bb.confidence,
    bb.all_confidences>>

BoxesOf(f, entry) == IF IsSegment(f) THEN entry.bounding_boxes ELSE entry

\* C25: two calls of decodeSegment whose inputs differ only in the
\* mask-coefficient channels, or of decodePose whose inputs differ only in
\* the keypoint channels, select the same slots in the same order and return
\* boxes with the same x, y, width, height, class_index, confidence and
\* all_confidences.
C25_ExtraChannelsDoNotScore ==
  (BothReturned /\ (IsPose(fn) \/ IsSegment(fn))) =>
    /\ box_indices = baseline[1].box_indices
    /\ Len(result) = Len(baseline[1].result)
    /\ \A b \in 1..Len(result) :
         LET bbs == BoxesOf(fn, result[b])
             was == BoxesOf(fn, baseline[1].result[b])
         IN /\ Len(bbs) = Len(was)
            /\ \A k \in 1..Len(bbs) : BoxFields(bbs[k]) = BoxFields(was[k])

\* decodeSegment twice, NMS keeping two boxes, mask coefficients 0 then 3
C25_Witness ==
  /\ BothReturned /\ fn = "decodeSegment" /\ Truthy(args.maxOutputSize)
  /\ Len(box_indices) = 2
  /\ baseline[1].args.output_boxes[1][6] = <<0, 0>>
  /\ args.output_boxes[1][6] = <<3, 3>>
  /\ result[1].bounding_boxes[1].mask_coefficients = <<3>>
  /\ baseline[1].result[1].bounding_boxes[1].mask_coefficients = <<0>>

\* decodePose twice, keypoint channels 0 then 3
C25_WitnessPose ==
  /\ BothReturned /\ fn = "decodePose" /\ Truthy(args.maxOutputSize)
  /\ Len(box_indices) = 2
  /\ baseline[1].args.output[1][6] = <<0, 0>>
  /\ args.output[1][6] = <<3, 3>>
  /\ args.output[1][7] = <<3, 3>>

\* C28: when maxOutputSize is not provided, two calls of decodeBox on the
\* same output that differ only in iouThreshold and scoreThreshold return
\* identical results.
C28_ThresholdsUnusedWithoutNms ==
  (/\ baseline # <<>> /\ IsBox(fn) /\ pc \in {"returned", "thrown"}
   /\ ~IsProvided(args.maxOutputSize)) =>
    /\ pc = baseline[1].pc
    /\ result = baseline[1].result

\* two overlapping slots, one of score 1, both returned although the second
\* call has a scoreThreshold of 1 and an iouThreshold
C28_Witness ==
  /\ BothReturned /\ fn = "decodeBox" /\ ~IsProvided(args.maxOutputSize)
  /\ baseline[1].args.scoreThreshold = None /\ baseline[1].args.iouThreshold = None
  /\ args.scoreThreshold = Some(1) /\ IsProvided(args.iouThreshold)
  /\ args.output[1][1] = <<3, 5>>
  /\ args.output[1][5] = <<1, 2>>
  /\ Len(result[1]) = 2

\* ------------------------------------------ properties of mask coefficients
\* the channel count of a prototype tensor [height][width][channel]
PrototypeChannels(masks) == Len(masks[1][1])

\* C26: every box that decodeSegment returns in batch b has num_channels mask
\* coefficients, coefficient i being output_boxes[b][4 + num_classes + i] at
\* the box's slot, and as many of them as the prototype tensor returned for
\* batch b has channels.
C26_CoefficientsMatchPrototype ==
  (Returned /\ IsSegment(fn) /\ ~FirstBatchEmpty) =>
    \A b \in 1..Len(result) : \A k \in 1..Len(result[b].bounding_boxes) :
      LET bb == result[b].bounding_boxes[k]
          batch == args.output_boxes[b]
      IN /\ Len(bb.mask_coefficients) = num_channels(args)
         /\ \E s \in 0..(num_boxes - 1) :
              /\ IsSlot(bb, batch, args.num_classes, s)
              /\ \A i \in 0..(num_channels(args) - 1) :
                   bb.mask_coefficients[i + 1] = At(batch, 4 + args.num_classes + i, s)
         /\ Len(bb.mask_coefficients) = PrototypeChannels(result[b].masks)

\* ---------------------------------------------- properties of index tensors
\* the index tensors of call i (1-based) that are still live
LiveTensorsOf(i) == {t \in live_tensors : t.id[1] = i}

\* C27: once a call of decodeBox or decodeBoxSync has returned, none of the
\* index tensors that its NMS steps produced is live.
C27_IndexTensorsDisposed ==
  \A i \in 1..Len(calls) :
    (IsBox(calls[i].fn) /\ calls[i].pc = "returned") => LiveTensorsOf(i) = {}

\* decodeBox returned after NMS on two batches while another call still
\* holds an index tensor
C27_Witness ==
  /\ Len(calls) = 2
  /\ calls[1].fn = "decodeBox" /\ calls[1].pc = "returned"
  /\ Truthy(calls[1].args.maxOutputSize) /\ Len(calls[1].result) = 2
  /\ calls[2].pc = "await_array"
  /\ LiveTensorsOf(1) = {} /\ LiveTensorsOf(2) # {}

\* decodeBoxSync returned after NMS on two batches
C27_WitnessSync ==
  /\ Len(calls) >= 1
  /\ calls[1].fn = "decodeBoxSync" /\ calls[1].pc = "returned"
  /\ Truthy(calls[1].args.maxOutputSize) /\ Len(calls[1].result) = 2
  /\ LiveTensorsOf(1) = {}

====
